---- MODULE Spec2Model ----
(***************************************************************************)
(* Model of example/k_tree_example.cpp: the command dispatch of main, the  *)
(* build pipeline (tree-order check, read_entire_file, buffer_to_list,     *)
(* dimensionality count, parse loop, insert loop, serialisation) and the   *)
(* process exit status.                                                    *)
(*                                                                         *)
(* A std::string of size n is a sequence of n bytes; the byte at index n   *)
(* is the string's terminating zero (see At).  A pointer into the buffer   *)
(* is a 1-based position.                                                  *)
(***************************************************************************)
EXTENDS Integers, Sequences, FiniteSets, TLC

\* Longest file, in bytes, that the model reads.
MaxLen == 5

\* Largest token count a read through an indeterminate pointer may produce.
MaxGarbageDim == 1

\* The bytes files are made of: NUL, '\n', '\r', ' ', '1', '2'.
NUL == 0
LF == 10
CR == 13
SP == 32
Bytes == {NUL, LF, CR, SP, 49, 50}

\* Lengths of argv[2], the input path: a short one and one of 228 characters.
NameLens == {1, 228}

\* Values atoi(argv[3]) returns.
Orders == {-1, 0, 1, 2, 1000000, 1000001}

\* argc values, and argv[1] when it exists.
Argcs == {1, 2, 3, 5, 6}
Keywords == {"build", "unittest", "other"}

RECURSIVE SeqsUpTo(_)
SeqsUpTo(n) ==
    IF n = 0 THEN {<<>>}
    ELSE LET shorter == SeqsUpTo(n - 1)
         IN  shorter \cup {Append(s, b) : s \in {t \in shorter : Len(t) = n - 1}, b \in Bytes}

\* What fopen/fstat/fread can find at the input path.
Files ==
    {[kind |-> "missing", st_size |-> 0, data |-> <<>>],
     [kind |-> "nostat", st_size |-> 0, data |-> <<>>]}
    \cup {[kind |-> "unreadable", st_size |-> n, data |-> <<>>] : n \in 1..MaxLen}
    \cup {[kind |-> "regular", st_size |-> Len(d), data |-> d] : d \in SeqsUpTo(MaxLen)}

VARIABLES pc, argc, argv1, mode, diag, status, tree_order, namelen, disk,
          bytes, file_contents, line_count, lines, dimensions, vector_list,
          tree, outfile

vars == <<pc, argc, argv1, mode, diag, status, tree_order, namelen, disk,
          bytes, file_contents, line_count, lines, dimensions, vector_list,
          tree, outfile>>

----------------------------------------------------------------------------
\* Byte access, C strings and <ctype.h>

\* *pos for a pointer into a std::string: buffer[size()] is '\0'.
At(buf, pos) == IF pos <= Len(buf) THEN buf[pos] ELSE NUL

IsTerminator(c) == c = LF \/ c = CR

\* isspace() in the "C" locale.
IsSpace(c) == c \in {9, 10, 11, 12, 13, SP}

\* The conversion of the int returned by atoi to the size_t parameter of
\* build.  The value is carry * 2^64 + off.
ToSizeT(i) == [carry |-> IF i < 0 THEN 1 ELSE 0, off |-> i]

\* size_t comparisons against a constant c, 0 <= c < 2^31.
SizeLess(t, c) == t.carry = 0 /\ t.off < c
SizeGreater(t, c) == t.carry = 1 \/ t.off > c

\* exit(n) and "return n" from main: the invoker sees the low 8 bits.
ExitStatus(n) == n % 256

\* Return values of the two diagnostic printf calls.
PrintfTreeOrder == 43
PrintfCannotRead(len) == 28 + len

----------------------------------------------------------------------------
\* read_entire_file

\* The file length returned and the contents of "into" on return, for the
\* file f found at the path and the contents "into" had on entry.
read_entire_file(f, into) ==
    IF f.kind = "missing"
    THEN [file_length |-> 0, into |-> into]
    ELSE IF f.kind = "nostat"
    THEN [file_length |-> 0, into |-> into]
    ELSE IF f.st_size = 0
    THEN [file_length |-> 0, into |-> into]
    ELSE IF f.kind = "unreadable"
    THEN [file_length |-> f.st_size, into |-> <<>>]
    ELSE [file_length |-> f.st_size, into |-> f.data]

----------------------------------------------------------------------------
\* buffer_to_list

\* while (*pos == '\n' || *pos == '\r') pos++;
RECURSIVE SkipTerminators(_, _)
SkipTerminators(buf, pos) ==
    IF IsTerminator(At(buf, pos)) THEN SkipTerminators(buf, pos + 1) ELSE pos

\* The first walk of the buffer: the value of line_count when it ends.
RECURSIVE CountLines(_, _, _)
CountLines(buf, pos, count) ==
    IF At(buf, pos) = NUL THEN count
    ELSE IF IsTerminator(At(buf, pos))
         THEN CountLines(buf, SkipTerminators(buf, pos), count + 1)
         ELSE CountLines(buf, pos + 1, count)

\* The mutant of SplitLines that records a line after every terminator byte.
RECURSIVE SplitLinesNoCoalesce(_, _, _)
SplitLinesNoCoalesce(buf, pos, line_list) ==
    IF At(buf, pos) = NUL THEN [buffer |-> buf, line_list |-> line_list]
    ELSE IF IsTerminator(At(buf, pos))
         THEN LET zeroed == [buf EXCEPT ![pos] = NUL]
                  next == pos + 1
              IN  SplitLinesNoCoalesce(zeroed, next,
                      IF At(zeroed, next) # NUL
                      THEN Append(line_list, next) ELSE line_list)
         ELSE SplitLinesNoCoalesce(buf, pos + 1, line_list)

\* The second walk of the buffer: the buffer and the list when it ends.
RECURSIVE SplitLines(_, _, _)
SplitLines(buf, pos, line_list) ==
    IF At(buf, pos) = NUL THEN [buffer |-> buf, line_list |-> line_list]
    ELSE IF IsTerminator(At(buf, pos))
         THEN LET zeroed == [buf EXCEPT ![pos] = NUL]
                  next == SkipTerminators(zeroed, pos + 1)
              IN  SplitLines(zeroed, next,
                      IF At(zeroed, next) # NUL
                      THEN Append(line_list, next) ELSE line_list)
         ELSE SplitLines(buf, pos + 1, line_list)

\* The whole function: the count of the first walk (the capacity reserved),
\* the list of line pointers and the buffer as the second walk leaves it.
buffer_to_list(buf) ==
    LET count == CountLines(buf, 1, 0)
        first == IF ~IsTerminator(At(buf, 1)) /\ At(buf, 1) # NUL
                 THEN <<1>> ELSE <<>>
        walked == SplitLines(buf, 1, first)
    IN  [line_count |-> count, line_list |-> walked.line_list,
         buffer |-> walked.buffer]

----------------------------------------------------------------------------
\* The tokenising loops of build

\* while (isspace(*pos)) pos++;
RECURSIVE SkipSpace(_, _)
SkipSpace(buf, pos) ==
    IF IsSpace(At(buf, pos)) THEN SkipSpace(buf, pos + 1) ELSE pos

\* while (*pos != '\0' && !isspace(*pos)) pos++;
RECURSIVE SkipToken(_, _)
SkipToken(buf, pos) ==
    IF At(buf, pos) # NUL /\ ~IsSpace(At(buf, pos))
    THEN SkipToken(buf, pos + 1) ELSE pos

\* The digits atof consumes at pos, as a number.
RECURSIVE Digits(_, _, _)
Digits(buf, pos, acc) ==
    IF At(buf, pos) \in 48..57
    THEN Digits(buf, pos + 1, acc * 10 + (At(buf, pos) - 48))
    ELSE acc

\* (float)atof(pos) for the byte values of the model: leading white space
\* is skipped and the decimal digits that follow are converted.
Atof(buf, pos) == Digits(buf, SkipSpace(buf, pos), 0)

\* The do-while loop that counts the tokens of the first line.
RECURSIVE CountDimensions(_, _, _)
CountDimensions(buf, pos, dims) ==
    LET p1 == SkipSpace(buf, pos)
    IN  IF At(buf, p1) = NUL THEN dims
        ELSE LET p2 == SkipToken(buf, p1)
             IN  IF At(buf, p2) # NUL
                 THEN CountDimensions(buf, p2, dims + 1)
                 ELSE dims + 1

\* The body of the parse loop for one line: the stores
\* objectionable->vector[dimension] = value it performs, in order.
RECURSIVE ParseStores(_, _, _, _)
ParseStores(buf, pos, dimension, stores) ==
    LET p1 == SkipSpace(buf, pos)
    IN  IF At(buf, p1) = NUL THEN stores
        ELSE LET value == Atof(buf, p1)
                 p2 == SkipToken(buf, p1)
                 done == Append(stores, [index |-> dimension, value |-> value])
             IN  IF At(buf, p2) # NUL
                 THEN ParseStores(buf, p2, dimension + 1, done)
                 ELSE done

\* The mutant of ParseLine that stops storing at the declared length.
ParseLineTruncating(buf, line, dims) ==
    LET all == ParseStores(buf, line, 0, <<>>)
    IN  SubSeq(all, 1, IF Len(all) < dims THEN Len(all) ELSE dims)

\* The stores of the parse loop for the line at pointer "line".
ParseLine(buf, line, dims) == ParseStores(buf, line, 0, <<>>)

----------------------------------------------------------------------------
\* The process

NoFile == [kind |-> "missing", st_size |-> 0, data |-> <<>>]
NoOutput == [written |-> FALSE, image |-> <<>>]

Init ==
    /\ pc = "main"
    /\ argc \in Argcs
    /\ argv1 \in IF argc >= 2 THEN Keywords ELSE {"none"}
    /\ mode = "none"
    /\ diag = "none"
    /\ status = 0
    /\ tree_order = ToSizeT(0)
    /\ namelen = 0
    /\ disk = NoFile
    /\ bytes = 0
    /\ file_contents = <<>>
    /\ line_count = 0
    /\ lines = <<>>
    /\ dimensions = 0
    /\ vector_list = <<>>
    /\ tree = <<>>
    /\ outfile = NoOutput

\* return unittest();  (the self-tests are the index's, and return 0)
Unittest ==
    /\ mode' = "unittest"
    /\ pc' = "returned"
    /\ status' = ExitStatus(0)
    /\ UNCHANGED <<diag, tree_order, namelen>>

\* return usage(argv[0]);
Usage ==
    /\ mode' = "usage"
    /\ diag' = "usage"
    /\ pc' = "returned"
    /\ status' = ExitStatus(0)
    /\ UNCHANGED <<tree_order, namelen>>

\* return build(argv[2], atoi(argv[3]), argv[4]);  up to the entry of build
CallBuild ==
    \E order \in Orders, len \in NameLens :
        /\ mode' = "build"
        /\ tree_order' = ToSizeT(order)
        /\ namelen' = len
        /\ pc' = "build"
        /\ UNCHANGED <<diag, status>>

Main ==
    /\ pc = "main"
    /\ IF argc # 5
       THEN IF argc = 2 THEN Unittest ELSE Usage
       ELSE IF argv1 = "unittest" THEN Unittest
       ELSE IF argv1 = "build" THEN CallBuild
       ELSE Usage
    /\ UNCHANGED <<argc, argv1, disk, bytes, file_contents, line_count, lines,
                   dimensions, vector_list, tree, outfile>>

\* The mutant of TreeOrderRejected whose upper limit is exclusive.
TreeOrderRejectedExclusive(t) == SizeLess(t, 2) \/ SizeGreater(t, 999999)

\* tree_order < 2 || tree_order > 1'000'000
TreeOrderRejected(t) == SizeLess(t, 2) \/ SizeGreater(t, 1000000)

CheckTreeOrder ==
    /\ pc = "build"
    /\ IF TreeOrderRejected(tree_order)
       THEN /\ diag' = "tree_order"
            /\ status' = ExitStatus(PrintfTreeOrder)
            /\ pc' = "exited"
       ELSE /\ pc' = "read"
            /\ UNCHANGED <<diag, status>>
    /\ UNCHANGED <<argc, argv1, mode, tree_order, namelen, disk, bytes,
                   file_contents, line_count, lines, dimensions, vector_list,
                   tree, outfile>>

\* size_t bytes = read_entire_file(infilename, file_contents);
ReadFile ==
    /\ pc = "read"
    /\ \E f \in Files :
          LET r == read_entire_file(f, file_contents)
          IN  /\ disk' = f
              /\ bytes' = r.file_length
              /\ file_contents' = r.into
    /\ pc' = "check_bytes"
    /\ UNCHANGED <<argc, argv1, mode, diag, status, tree_order, namelen,
                   line_count, lines, dimensions, vector_list, tree, outfile>>

\* The mutant of CheckBytes in which the output stream is already open when
\* the unreadable input is reported.
CheckBytesOutputOpen ==
    /\ pc = "check_bytes"
    /\ IF bytes <= 0
       THEN /\ diag' = "cannot_read"
            /\ status' = ExitStatus(PrintfCannotRead(namelen))
            /\ pc' = "exited"
            /\ outfile' = [written |-> TRUE, image |-> <<>>]
       ELSE /\ pc' = "split"
            /\ UNCHANGED <<diag, status, outfile>>
    /\ UNCHANGED <<argc, argv1, mode, tree_order, namelen, disk, bytes,
                   file_contents, line_count, lines, dimensions, vector_list,
                   tree>>

\* if (bytes <= 0) exit(printf("Cannot read vector file: '%s'\n", infilename));
CheckBytes ==
    /\ pc = "check_bytes"
    /\ IF bytes <= 0
       THEN /\ diag' = "cannot_read"
            /\ status' = ExitStatus(PrintfCannotRead(namelen))
            /\ pc' = "exited"
       ELSE /\ pc' = "split"
            /\ UNCHANGED <<diag, status>>
    /\ UNCHANGED <<argc, argv1, mode, tree_order, namelen, disk, bytes,
                   file_contents, line_count, lines, dimensions, vector_list,
                   tree, outfile>>

\* buffer_to_list(lines, file_contents);
Split ==
    /\ pc = "split"
    /\ LET r == buffer_to_list(file_contents)
       IN  /\ line_count' = r.line_count
           /\ lines' = r.line_list
           /\ file_contents' = r.buffer
    /\ pc' = "sniff"
    /\ UNCHANGED <<argc, argv1, mode, diag, status, tree_order, namelen, disk,
                   bytes, dimensions, vector_list, tree, outfile>>

\* Where control is, given how far the two for loops and the lists are.
LoopPhase(nlines, nparsed, ninserted) ==
    IF nparsed < nlines THEN "parse"
    ELSE IF ninserted < nparsed THEN "insert"
    ELSE "serialize"

\* The dimensionality count of lines[0] and the construction of the tree.
\* lines[0] of an empty vector is undefined: the read faults, or it yields
\* an indeterminate pointer and the count is of whatever bytes are there.
Sniff ==
    /\ pc = "sniff"
    /\ IF lines = <<>>
       THEN \/ /\ pc' = "crashed"
               /\ UNCHANGED dimensions
            \/ /\ dimensions' \in 0..MaxGarbageDim
               /\ pc' = LoopPhase(Len(lines), 0, 0)
       ELSE /\ dimensions' = CountDimensions(file_contents, lines[1], 0)
            /\ pc' = LoopPhase(Len(lines), 0, 0)
    /\ UNCHANGED <<argc, argv1, mode, diag, status, tree_order, namelen, disk,
                   bytes, file_contents, line_count, lines, vector_list, tree,
                   outfile>>

\* The object the parse loop fills for line number i.
NewObject(i, stores) == [object |-> i, length |-> dimensions, stores |-> stores]

\* The mutant of ParseNext that inserts each vector as soon as it is parsed.
ParseNextAndInsert ==
    /\ pc = "parse"
    /\ LET i == Len(vector_list) + 1
           stores == ParseLine(file_contents, lines[i], dimensions)
           filled == NewObject(i, stores)
       IN  /\ vector_list' = Append(vector_list, filled)
           /\ tree' = Append(tree, filled)
           /\ \/ pc' = LoopPhase(Len(lines), i, i)
              \/ /\ \E k \in 1..Len(stores) : stores[k].index >= dimensions
                 /\ pc' = "crashed"
    /\ UNCHANGED <<argc, argv1, mode, diag, status, tree_order, namelen, disk,
                   bytes, file_contents, line_count, lines, dimensions,
                   outfile>>

\* One iteration of "for (const auto line : lines)".  A store at an index
\* at or past the declared length is out of bounds: it goes unnoticed or
\* the process faults.
ParseNext ==
    /\ pc = "parse"
    /\ LET i == Len(vector_list) + 1
           stores == ParseLine(file_contents, lines[i], dimensions)
       IN  /\ vector_list' = Append(vector_list, NewObject(i, stores))
           /\ \/ pc' = LoopPhase(Len(lines), i, 0)
              \/ /\ \E k \in 1..Len(stores) : stores[k].index >= dimensions
                 /\ pc' = "crashed"
    /\ UNCHANGED <<argc, argv1, mode, diag, status, tree_order, namelen, disk,
                   bytes, file_contents, line_count, lines, dimensions, tree,
                   outfile>>

\* One iteration of "for (const auto vector : vector_list)".
InsertNext ==
    /\ pc = "insert"
    /\ LET j == Len(tree) + 1
       IN  /\ tree' = Append(tree, vector_list[j])
           /\ pc' = LoopPhase(Len(lines), Len(vector_list), j)
    /\ UNCHANGED <<argc, argv1, mode, diag, status, tree_order, namelen, disk,
                   bytes, file_contents, line_count, lines, dimensions,
                   vector_list, outfile>>

\* std::ofstream outfile(outfilename); outfile << tree; return 0;
Serialize ==
    /\ pc = "serialize"
    /\ outfile' = [written |-> TRUE, image |-> tree]
    /\ status' = ExitStatus(0)
    /\ pc' = "returned"
    /\ UNCHANGED <<argc, argv1, mode, diag, tree_order, namelen, disk, bytes,
                   file_contents, line_count, lines, dimensions, vector_list,
                   tree>>

Next ==
    \/ Main
    \/ CheckTreeOrder
    \/ ReadFile
    \/ CheckBytes
    \/ Split
    \/ Sniff
    \/ ParseNext
    \/ InsertNext
    \/ Serialize

Spec == Init /\ [][Next]_vars

----------------------------------------------------------------------------
\* Vocabulary of the properties

\* The Line Splitter has run.
SplitDone ==
    /\ mode = "build"
    /\ \/ pc \in {"sniff", "parse", "insert", "serialize", "crashed"}
       \/ pc = "returned"

\* The buffer as read_entire_file left it, before the Line Splitter.
RawBuffer == IF disk.kind = "regular" THEN disk.data ELSE <<>>

\* The number of bytes of s before its first zero byte.
CLen(s) ==
    IF \E i \in 1..Len(s) : s[i] = NUL
    THEN (CHOOSE i \in 1..Len(s) :
              s[i] = NUL /\ \A j \in 1..(i - 1) : s[j] # NUL) - 1
    ELSE Len(s)

\* The zero-terminated string at pos.
CString(buf, pos) ==
    IF pos > Len(buf) THEN <<>>
    ELSE LET rest == SubSeq(buf, pos, Len(buf))
         IN  SubSeq(rest, 1, CLen(rest))

\* The positions at which a non-blank logical line of s begins.
LineStarts(s) ==
    {i \in 1..CLen(s) : ~IsTerminator(s[i]) /\ (i = 1 \/ IsTerminator(s[i - 1]))}

\* The logical line of s that begins at i: the maximal run without '\r', '\n'.
LogicalLine(s, i) ==
    LET e == CHOOSE e \in i..CLen(s) :
                 /\ \A j \in i..e : ~IsTerminator(s[j])
                 /\ e = CLen(s) \/ IsTerminator(s[e + 1])
    IN  SubSeq(s, i, e)

\* The positions at which a white-space delimited token of s begins.
TokenStarts(s) ==
    {i \in 1..Len(s) : ~IsSpace(s[i]) /\ (i = 1 \/ IsSpace(s[i - 1]))}

\* The n-th smallest member of a set of positions.
Nth(S, n) == CHOOSE i \in S : Cardinality({j \in S : j < i}) = n - 1

\* The token of s that begins at i.
Token(s, i) ==
    LET e == CHOOSE e \in i..Len(s) :
                 /\ \A j \in i..e : ~IsSpace(s[j])
                 /\ e = Len(s) \/ IsSpace(s[e + 1])
    IN  SubSeq(s, i, e)

\* Token n of s goes to component n - 1, for every token of s.
TokenStores(s) ==
    [n \in 1..Cardinality(TokenStarts(s)) |->
        [index |-> n - 1, value |-> Atof(Token(s, Nth(TokenStarts(s), n)), 1)]]

\* The text of line number i of the Ordered Line Sequence.
LineText(i) == CString(file_contents, lines[i])

----------------------------------------------------------------------------
\* C1: buffer_to_list returns exactly one line pointer per non-blank logical
\* line of the zero-terminated buffer, in file order, each at the first byte
\* of its line, and the string at each pointer is that logical line; runs of
\* '\r' and '\n' separate once, a buffer of terminators alone gives no line
\* and a last line without a terminator is returned.
C1_LinesAreLogicalLines ==
    SplitDone =>
        /\ {lines[k] : k \in 1..Len(lines)} = LineStarts(RawBuffer)
        /\ \A k \in 1..(Len(lines) - 1) : lines[k] < lines[k + 1]
        /\ \A k \in 1..Len(lines) :
              CString(file_contents, lines[k]) = LogicalLine(RawBuffer, lines[k])

\* Two lines split by a mixed run of terminators, the last one unterminated.
C1_Witness ==
    /\ SplitDone
    /\ disk.data = <<49, SP, CR, LF, 50>>
    /\ lines = <<1, 5>>

\* C2: read_entire_file returns the number of bytes it put in the buffer,
\* and when the file cannot be opened, has size zero or cannot be read in
\* full, the buffer is empty and the length returned is zero.
C2_LengthIsBufferSize ==
    pc = "check_bytes" =>
        /\ bytes = Len(file_contents)
        /\ (disk.kind = "missing" \/ disk.st_size = 0 \/ disk.kind = "unreadable")
              => (bytes = 0 /\ file_contents = <<>>)

\* C3: when build aborts for the tree order or the unreadable input, the
\* exit status is nonzero and is the printf count reduced to 8 bits.
C3_AbortStatusNonzero ==
    pc = "exited" =>
        /\ status # 0
        /\ diag = "tree_order" => status = PrintfTreeOrder % 256
        /\ diag = "cannot_read" => status = PrintfCannotRead(namelen) % 256

\* C4: the output file is written only when load, split, parse-all and
\* insert-all have completed, and a run that aborts (or faults) leaves the
\* output file untouched.
C4_NoPartialOutput ==
    /\ outfile.written =>
          /\ pc = "returned"
          /\ mode = "build"
          /\ diag = "none"
          /\ bytes > 0
          /\ Len(vector_list) = Len(lines)
          /\ tree = vector_list
          /\ outfile.image = tree
    /\ pc \in {"exited", "crashed"} => outfile = NoOutput
    /\ pc \notin {"returned", "exited", "crashed"} => outfile = NoOutput

\* A completed build of two vectors with its output written.
C4_Witness ==
    /\ outfile.written
    /\ Len(outfile.image) = 2

\* C5: build runs for four arguments with keyword build, the unit tests for
\* keyword unittest with four arguments or alone, and every other
\* invocation prints the usage text and returns 0.
C5_Dispatch ==
    pc # "main" =>
        /\ mode = IF argc = 5 /\ argv1 = "build" THEN "build"
                  ELSE IF argc \in {2, 5} /\ argv1 = "unittest" THEN "unittest"
                  ELSE "usage"
        /\ mode = "usage" => (diag = "usage" /\ status = 0 /\ pc = "returned")

\* C6: build goes on to the File Loader exactly when the tree order, as
\* atoi returned it, is in [2, 1,000,000]; otherwise it exits with the
\* tree-order diagnostic and the input file has not been read.
C6_TreeOrderRange ==
    [][pc = "build" =>
          IF 2 <= tree_order.off /\ tree_order.off <= 1000000
          THEN pc' = "read" /\ diag' = "none"
          ELSE /\ pc' = "exited"
               /\ diag' = "tree_order"
               /\ UNCHANGED <<disk, bytes, file_contents>>]_vars

\* The order 1,000,000 has been accepted.
C6_Witness ==
    /\ pc = "read"
    /\ tree_order = ToSizeT(1000000)

\* C7: nothing is inserted before every line is parsed; the Vector List
\* holds one vector per parsed line, the i-th from the i-th line; the index
\* receives the vectors of the list in order, once each, and all N of them
\* by the end of the insert loop.
C7_ParseThenInsert ==
    /\ tree # <<>> => Len(vector_list) = Len(lines)
    /\ Len(vector_list) <= Len(lines)
    /\ \A i \in 1..Len(vector_list) :
          /\ vector_list[i].object = i
          /\ vector_list[i].stores = TokenStores(LineText(i))
    /\ Len(tree) <= Len(vector_list)
    /\ \A j \in 1..Len(tree) : tree[j] = vector_list[j]
    /\ (pc = "serialize" \/ outfile.written) =>
          (Len(vector_list) = Len(lines) /\ Len(tree) = Len(lines))

\* Three different vectors parsed and inserted.
C7_Witness ==
    /\ pc = "serialize"
    /\ Len(tree) = 3
    /\ tree[1].stores # tree[2].stores
    /\ tree[2].stores # tree[3].stores

\* C8: the line count of the first walk equals the number of line pointers
\* the second walk pushes.
C8_CountIsListSize == SplitDone => line_count = Len(lines)

\* C9: with the declared length D the token count of the first line, for a
\* line of k tokens the parser stores token i at component i, for i = 0..k-1
\* in that order, and nothing else: nothing at k..D-1 when k < D, and the
\* excess tokens at D..k-1 when k > D.
C9_StoresAreTokens ==
    \A i \in 1..Len(vector_list) :
        LET stores == vector_list[i].stores
            k == Cardinality(TokenStarts(LineText(i)))
        IN  /\ dimensions = Cardinality(TokenStarts(LineText(1)))
            /\ vector_list[i].length = dimensions
            /\ Len(stores) = k
            /\ \A n \in 1..k :
                  /\ stores[n].index = n - 1
                  /\ stores[n].value =
                        Atof(Token(LineText(i), Nth(TokenStarts(LineText(i)), n)), 1)

\* A line of two tokens parsed into a vector of declared length one.
C9_Witness ==
    /\ Len(vector_list) = 2
    /\ dimensions = 1
    /\ vector_list[2].length = 1
    /\ vector_list[2].stores = <<[index |-> 0, value |-> 1], [index |-> 1, value |-> 2]>>

\* C10: whenever the bytes check has passed, the list of lines is not empty
\* when lines[0] is read.
C10_FirstLineExists == pc = "sniff" => Len(lines) > 0

====
